---- MODULE Spec2Model ----
(***************************************************************************)
(* A model of yooztech_mcp_mysql (src/src/app.py): the MySQLGuard object   *)
(* (inferred_db, _schema_cache), the MySQL catalog and the project files   *)
(* it reads, and the five tools served over it.                            *)
(*                                                                         *)
(* Text is a sequence of atoms.  A name (schema, table, column, hint,      *)
(* order_by entry) is a sequence of one-character atoms, so that           *)
(* f"{db}.{table}", lstrip("-+") and startswith("-") are computed as the   *)
(* code computes them; the fixed pieces of a statement are longer atoms.   *)
(* An Optional value is None (the empty tuple) or Some(v) (a 1-tuple).     *)
(***************************************************************************)
EXTENDS Integers, Sequences, FiniteSets, TLC

VARIABLES
    inferred_db,    \* MySQLGuard.inferred_db: None or Some(schema name)
    schema_cache,   \* MySQLGuard._schema_cache: key text -> column names
    schemata,       \* catalog: the non-system SCHEMA_NAMEs, in ORDER BY order
    tables,         \* catalog: <<schema, table>> -> COLUMNS/STATISTICS rows, row count
    files,          \* file system: project root -> the files under it, in scan order
    req,            \* the tool call in flight
    resp            \* the result of the call in flight, once its handler has run

vars == <<inferred_db, schema_cache, schemata, tables, files, req, resp>>

(***************************************************************************)
(* Python values                                                           *)
(***************************************************************************)
None == <<>>
Some(v) == <<v>>

\* "if x:" and "if not x:" on an Optional str, list or dict.
Truthy(o) == o # None /\ o[1] # <<>>

\* "x in s" on a list.
Member(x, s) == \E i \in DOMAIN s : s[i] = x

RECURSIVE DedupFrom(_, _)
DedupFrom(s, acc) ==
    IF s = <<>> THEN acc
    ELSE DedupFrom(Tail(s),
                   IF Member(Head(s), acc) THEN acc ELSE Append(acc, Head(s)))

\* A mutation of Dedup: duplicates are kept.
DedupKeepsAll(s) == s

\* list(dict.fromkeys(s)): first occurrences, in order.
Dedup(s) == DedupFrom(s, <<>>)

\* s.lstrip(chars)
RECURSIVE Lstrip(_, _)
Lstrip(s, chars) ==
    IF s # <<>> /\ Head(s) \in chars THEN Lstrip(Tail(s), chars) ELSE s

\* s.startswith(c) for a one-character c
StartsWith(s, c) == s # <<>> /\ Head(s) = c

\* sep.join(parts)
RECURSIVE Join(_, _)
Join(parts, sep) ==
    IF parts = <<>> THEN <<>>
    ELSE IF Len(parts) = 1 THEN parts[1]
    ELSE parts[1] \o sep \o Join(Tail(parts), sep)

Min(a, b) == IF a <= b THEN a ELSE b

\* [f(x) for x in s]
Map(s, f(_)) == [i \in DOMAIN s |-> f(s[i])]

(***************************************************************************)
(* Names of the bounded world                                              *)
(***************************************************************************)
shop     == <<"s", "h", "o", "p">>
billing  == <<"b", "i", "l", "l", "i", "n", "g">>
legacy   == <<"l", "e", "g", "a", "c", "y">>
users    == <<"u", "s", "e", "r", "s">>
orders   == <<"o", "r", "d", "e", "r", "s">>
id       == <<"i", "d">>
email    == <<"e", "m", "a", "i", "l">>
name     == <<"n", "a", "m", "e">>
nope     == <<"n", "o", "p", "e">>

\* os.getcwd(), and another project directory a caller may name.
CwdPath   == <<"/srv/app">>
OtherPath == <<"/srv/other">>

(***************************************************************************)
(* The catalog                                                             *)
(***************************************************************************)
\* What SCHEMATA can hold: every ordered list over the two schemas.
SchemaLists == {<<>>, <<billing>>, <<shop>>, <<billing, shop>>}

\* _non_system_databases(): the SCHEMATA rows, already filtered and ordered.
non_system_databases(cat) == cat

\* A COLUMNS row (its other fields are copied into the descriptor as they
\* are) and a STATISTICS row.
Col(n, k, pos) == [name |-> n, key |-> k, ordinal_position |-> pos]
Stat(i, nu, c) == [index_name |-> i, non_unique |-> nu, column_name |-> c]

\* No such table: the catalog has no COLUMNS row for it.
NoTable == [cols |-> <<>>, stats |-> <<>>, comment |-> None, nrows |-> 0]

\* users(id PK, email), with a secondary index on email.
UsersA ==
    [cols  |-> <<Col(id, "PRI", 1), Col(email, "MUL", 2)>>,
     stats |-> <<Stat("PRIMARY", 0, id), Stat("idx_email", 1, email)>>,
     comment |-> Some("accounts"), nrows |-> 2]

\* users(id, name, PRIMARY KEY (name, id)): the key's order is not the
\* columns' ordinal order.
UsersB ==
    [cols  |-> <<Col(id, "PRI", 1), Col(name, "PRI", 2)>>,
     stats |-> <<Stat("PRIMARY", 0, name), Stat("PRIMARY", 0, id)>>,
     comment |-> Some(""), nrows |-> 1001]

\* COLUMNS and STATISTICS are read by two statements; an ALTER TABLE ... ADD
\* PRIMARY KEY (id, email) between them leaves email unflagged in the rows
\* of the first and present in the rows of the second.
UsersC ==
    [cols  |-> <<Col(id, "PRI", 1), Col(email, "", 2)>>,
     stats |-> <<Stat("PRIMARY", 0, id), Stat("PRIMARY", 0, email)>>,
     comment |-> Some("accounts"), nrows |-> 2]

TableDefs == {NoTable, UsersA, UsersB, UsersC}

\* The tables whose definition changes; every other table does not exist.
CatalogPairs == {<<shop, users>>, <<shop, orders>>}

TableAt(cat, db, table) ==
    IF <<db, table>> \in DOMAIN cat THEN cat[<<db, table>>] ELSE NoTable

\* TABLE_NAMEs in ORDER BY order.
TableNamesSorted == <<orders, users>>
TablesIn(cat, db) ==
    SelectSeq(TableNamesSorted, LAMBDA t : TableAt(cat, db, t).cols # <<>>)

(***************************************************************************)
(* The project files                                                       *)
(***************************************************************************)
\* A file: whether its name is one of prefer_names, whether its suffix is
\* one of the text-like ones, the depth of its directory below the root,
\* whether open() succeeds, and the regex captures in its first 256 KiB, in
\* the order _extract_db_hints_from_text appends them.
File(p, t, d, r, m) ==
    [prefer |-> p, textlike |-> t, depth |-> d, readable |-> r, matches |-> m]

max_files == 200
max_depth == 2

extract_db_hints_from_text(f) == Dedup(f.matches)

\* The loop over prefer_names: <<found_hints, scanned>>.
RECURSIVE PreferPass(_, _, _)
PreferPass(fl, found, scanned) ==
    IF fl = <<>> THEN <<found, scanned>>
    ELSE LET f == Head(fl) IN
         IF f.prefer /\ f.depth = 0 /\ f.readable
         THEN PreferPass(Tail(fl),
                         found \o extract_db_hints_from_text(f), scanned + 1)
         ELSE PreferPass(Tail(fl), found, scanned)

\* The os.walk loop: found_hints.
RECURSIVE WalkPass(_, _, _)
WalkPass(fl, found, scanned) ==
    IF fl = <<>> THEN found
    ELSE LET f == Head(fl) IN
         IF f.depth > max_depth \/ scanned >= max_files
            \/ ~f.textlike \/ ~f.readable
         THEN WalkPass(Tail(fl), found, scanned)
         ELSE WalkPass(Tail(fl),
                       found \o extract_db_hints_from_text(f), scanned + 1)

FilesAt(fs, root) == IF root \in DOMAIN fs THEN fs[root] ELSE <<>>

\* found_hints as it stands at line 165, before the last dict.fromkeys.
ScanHints(fs, root) ==
    LET p == PreferPass(FilesAt(fs, root), <<>>, 0) IN
    IF p[2] < max_files THEN WalkPass(FilesAt(fs, root), p[1], p[2]) ELSE p[1]

\* A mutation of infer_database_internal: the first hint is taken as it
\* is, whether or not the account can see a schema of that name.
infer_first_hint(project_root, candidates, fs) ==
    LET root  == IF Truthy(project_root) THEN project_root[1] ELSE CwdPath
        hints == Dedup(ScanHints(fs, root))
    IN  IF hints # <<>>
        THEN [db |-> Some(hints[1]), candidates |-> candidates,
              hints |-> Some(hints), selected |-> Some(hints[1])]
        ELSE [db |-> None, candidates |-> candidates,
              hints |-> Some(hints), selected |-> None]

\* _infer_database_internal: the db and the evidence (candidates, hints when
\* the scan ran, selected when a schema was chosen).
infer_database_internal(project_root, candidates, fs) ==
    LET root == IF Truthy(project_root) THEN project_root[1] ELSE CwdPath IN
    IF candidates = <<>>
    THEN [db |-> None, candidates |-> candidates,
          hints |-> None, selected |-> None]
    ELSE LET found_hints  == Dedup(ScanHints(fs, root))
             intersection == SelectSeq(found_hints,
                                       LAMBDA h : Member(h, candidates))
         IN  IF Len(intersection) = 1
             THEN [db |-> Some(intersection[1]), candidates |-> candidates,
                   hints |-> Some(found_hints),
                   selected |-> Some(intersection[1])]
             ELSE IF intersection = <<>> /\ Len(candidates) = 1
             THEN [db |-> Some(candidates[1]), candidates |-> candidates,
                   hints |-> Some(found_hints),
                   selected |-> Some(candidates[1])]
             ELSE [db |-> None, candidates |-> candidates,
                   hints |-> Some(found_hints), selected |-> None]

(***************************************************************************)
(* MySQLGuard                                                              *)
(***************************************************************************)
\* A mutation of resolve_database: the cached database is consulted before
\* the caller's explicit one.
resolve_cache_first(db, cached, candidates, candidates2, fs) ==
    IF Truthy(cached)
    THEN [ok |-> TRUE, db |-> cached[1], inferred |-> cached, reads |-> 0]
    ELSE IF Truthy(db)
    THEN [ok |-> TRUE, db |-> db[1], inferred |-> cached, reads |-> 0]
    ELSE LET guessed == infer_database_internal(Some(CwdPath), candidates, fs).db
         IN  IF Truthy(guessed)
             THEN [ok |-> TRUE, db |-> guessed[1],
                   inferred |-> guessed, reads |-> 1]
             ELSE IF Len(candidates2) = 1
             THEN [ok |-> TRUE, db |-> candidates2[1],
                   inferred |-> Some(candidates2[1]), reads |-> 2]
             ELSE [ok |-> FALSE, db |-> <<>>, inferred |-> cached, reads |-> 2]

\* A mutation of resolve_database: an explicit db is remembered as the
\* inferred one.
resolve_caches_explicit(db, cached, candidates, candidates2, fs) ==
    IF Truthy(db)
    THEN [ok |-> TRUE, db |-> db[1], inferred |-> db, reads |-> 0]
    ELSE IF Truthy(cached)
    THEN [ok |-> TRUE, db |-> cached[1], inferred |-> cached, reads |-> 0]
    ELSE LET guessed == infer_database_internal(Some(CwdPath), candidates, fs).db
         IN  IF Truthy(guessed)
             THEN [ok |-> TRUE, db |-> guessed[1],
                   inferred |-> guessed, reads |-> 1]
             ELSE IF Len(candidates2) = 1
             THEN [ok |-> TRUE, db |-> candidates2[1],
                   inferred |-> Some(candidates2[1]), reads |-> 2]
             ELSE [ok |-> FALSE, db |-> <<>>, inferred |-> cached, reads |-> 2]

\* _resolve_database(db), with self.inferred_db = cached.  candidates is what
\* SCHEMATA holds when the inference pass reads it and candidates2 what it
\* holds when line 62 reads it again.  The result: whether a name is
\* returned (or ValueError raised), the name, self.inferred_db afterwards and
\* the number of SCHEMATA reads made.
resolve_database(db, cached, candidates, candidates2, fs) ==
    IF Truthy(db)
    THEN [ok |-> TRUE, db |-> db[1], inferred |-> cached, reads |-> 0]
    ELSE IF Truthy(cached)
    THEN [ok |-> TRUE, db |-> cached[1], inferred |-> cached, reads |-> 0]
    ELSE LET guessed == infer_database_internal(Some(CwdPath), candidates, fs).db
         IN  IF Truthy(guessed)
             THEN [ok |-> TRUE, db |-> guessed[1],
                   inferred |-> guessed, reads |-> 1]
             ELSE IF Len(candidates2) = 1
             THEN [ok |-> TRUE, db |-> candidates2[1],
                   inferred |-> Some(candidates2[1]), reads |-> 2]
             ELSE [ok |-> FALSE, db |-> <<>>, inferred |-> cached, reads |-> 2]

\* f"{db}.{table}": the key is this text, not the pair.
Key(db, table) == db \o <<".">> \o table

ColumnNames(def) == Map(def.cols, LAMBDA c : c.name)

\* A mutation of ensure_table_cached: the early return on a cached key is
\* missing, so every call reads COLUMNS and stores what it finds.
ensure_always_reads(cache, cat, db, table) ==
    LET key  == Key(db, table)
        cols == ColumnNames(TableAt(cat, db, table))
    IN  IF cols = <<>>
        THEN [ok |-> FALSE, cache |-> cache, reads |-> 1]
        ELSE [ok |-> TRUE, reads |-> 1,
              cache |-> [k \in DOMAIN cache \cup {key} |->
                            IF k = key THEN cols ELSE cache[k]]]

\* A mutation of ensure_table_cached: the column list is stored before it is
\* tested for emptiness.
ensure_stores_empty(cache, cat, db, table) ==
    LET key  == Key(db, table)
        cols == ColumnNames(TableAt(cat, db, table))
    IN  IF key \in DOMAIN cache
        THEN [ok |-> TRUE, cache |-> cache, reads |-> 0]
        ELSE [ok |-> cols # <<>>, reads |-> 1,
              cache |-> [k \in DOMAIN cache \cup {key} |->
                            IF k = key THEN cols ELSE cache[k]]]

\* _ensure_table_cached(db, table): whether it returns (or raises
\* ValueError), self._schema_cache afterwards and the number of COLUMNS reads.
ensure_table_cached(cache, cat, db, table) ==
    LET key  == Key(db, table)
        cols == ColumnNames(TableAt(cat, db, table))
    IN  IF key \in DOMAIN cache
        THEN [ok |-> TRUE, cache |-> cache, reads |-> 0]
        ELSE IF cols = <<>>
        THEN [ok |-> FALSE, cache |-> cache, reads |-> 1]
        ELSE [ok |-> TRUE, reads |-> 1,
              cache |-> [k \in DOMAIN cache \cup {key} |->
                            IF k = key THEN cols ELSE cache[k]]]

\* str(x).upper(), on the flags and index names the catalog holds.
Upper(x) ==
    CASE x = "pri" -> "PRI"
      [] x = "primary" -> "PRIMARY"
      [] OTHER -> x

\* The loop over col_rows (lines 259-285): the columns flagged PRI, in
\* ordinal position.
FlaggedPrimary(cols) ==
    Map(SelectSeq(cols, LAMBDA c : Upper(c.key) = "PRI"), LAMBDA c : c.name)

\* indexes_map[index_name]["columns"].append(col_name), creating the entry
\* on the index's first row.
AddIndexRow(imap, row) ==
    IF \E i \in DOMAIN imap : imap[i].name = row.index_name
    THEN [i \in DOMAIN imap |->
            IF imap[i].name = row.index_name
            THEN [imap[i] EXCEPT !.columns = Append(@, row.column_name)]
            ELSE imap[i]]
    ELSE Append(imap, [name    |-> row.index_name,
                       columns |-> <<row.column_name>>,
                       unique  |-> (row.non_unique = 0)])

\* The loop over idx_rows (lines 315-329): <<primary_key_cols, indexes>>.
RECURSIVE IndexPass(_, _, _)
IndexPass(rows, pk, imap) ==
    IF rows = <<>> THEN <<pk, imap>>
    ELSE LET row == Head(rows) IN
         IF Upper(row.index_name) = "PRIMARY"
         THEN IndexPass(Tail(rows),
                        IF Member(row.column_name, pk) THEN pk
                        ELSE Append(pk, row.column_name),
                        imap)
         ELSE IndexPass(Tail(rows), pk, AddIndexRow(imap, row))

\* The descriptor get_table_schema returns for a table with columns.
Descriptor(dbname, table, def) ==
    LET r == IndexPass(def.stats, FlaggedPrimary(def.cols), <<>>) IN
    [db |-> dbname, table |-> table, comment |-> def.comment,
     columns |-> def.cols, primary_key |-> r[1], indexes |-> r[2]]

(***************************************************************************)
(* select_rows                                                             *)
(***************************************************************************)
max_limit == 1000

\* A name between backquotes.
\* (the module's lexer takes no backquote in a string: the atom stands for it).
BQ == "<bq>"
Quoted(n) == <<BQ>> \o n \o <<BQ>>

\* The first element of s that is not in allowed, as Some(element), or None.
FirstNotIn(s, allowed) ==
    LET bad == SelectSeq(s, LAMBDA x : ~Member(x, allowed)) IN
    IF bad = <<>> THEN None ELSE Some(bad[1])

\* A where mapping is the sequence of its <<key, value>> items, in the
\* dict's order.
WhereKeys(w)   == Map(w, LAMBDA kv : kv[1])
WhereValues(w) == Map(w, LAMBDA kv : kv[2])

\* ob.lstrip("-+")
order_column(ob) == Lstrip(ob, {"-", "+"})

\* A mutation of where_clause_of: the value is written into the text.
where_clause_inline(w) ==
    IF w = <<>> THEN <<>>
    ELSE <<" WHERE ">>
         \o Join(Map(w, LAMBDA kv : Quoted(kv[1]) \o <<" = '", kv[2], "'">>),
                 <<" AND ">>)

\* Lines 371 and 387: the WHERE clause of the items of where.
where_clause_of(w) ==
    IF w = <<>> THEN <<>>
    ELSE <<" WHERE ">>
         \o Join(Map(w, LAMBDA kv : Quoted(kv[1]) \o <<" = %s">>), <<" AND ">>)

\* Lines 381-385: the ORDER BY clause of a non-empty order_by.
order_clause_of(obs) ==
    <<" ORDER BY ">>
    \o Join(Map(obs, LAMBDA ob :
                Quoted(order_column(ob))
                \o <<" ", IF StartsWith(ob, "-") THEN "DESC" ELSE "ASC">>),
            <<", ">>)

\* f" LIMIT {int(limit)}"
limit_text(limit) == <<" LIMIT ", ToString(limit)>>

\* Lines 387-392: the statement text.
sql_text(dbname, table, columns, w, obs, limit) ==
    <<"SELECT ">> \o Join(Map(columns, LAMBDA c : Quoted(c)), <<", ">>)
    \o <<" FROM ">> \o Quoted(dbname) \o <<".">> \o Quoted(table)
    \o where_clause_of(w)
    \o (IF obs = <<>> THEN <<>> ELSE order_clause_of(obs))
    \o limit_text(limit)

\* A mutation of limit_ok: the upper bound is accepted one too far.
limit_ok_off_by_one(limit) == ~(limit <= 0 \/ limit > max_limit + 1)

\* Line 349, negated.
limit_ok(limit) == ~(limit <= 0 \/ limit > max_limit)

\* The server's answer to cur.execute(sql, params) on a table defined as def:
\* error 1146 or 1054 (which the driver raises as mc.Error) when the table or
\* a column the statement names does not exist, else at most LIMIT rows.
Execute(def, named, limit) ==
    IF def.cols = <<>> \/ FirstNotIn(named, ColumnNames(def)) # None
    THEN [status |-> "DatabaseError", nrows |-> 0]
    ELSE [status |-> "ok", nrows |-> Min(limit, def.nrows)]

\* What select_rows does after the schema cache holds the table's columns
\* (lines 354-398): the error raised, or the statement executed and the
\* number of rows the server returns for it.
build_and_run(r, dbname, allowed, def) ==
    LET cols    == IF Truthy(r.columns) THEN r.columns[1] ELSE allowed
        w       == IF Truthy(r.where) THEN r.where[1] ELSE <<>>
        obs     == IF Truthy(r.order_by) THEN r.order_by[1] ELSE <<>>
        badcol  == FirstNotIn(cols, allowed)
        badkey  == FirstNotIn(WhereKeys(w), allowed)
        badord  == FirstNotIn(Map(obs, order_column), allowed)
        run     == Execute(def, cols \o WhereKeys(w) \o Map(obs, order_column),
                           r.limit)
    IN  IF badcol # None
        THEN [status |-> "InvalidArgument", detail |-> badcol,
              stmt |-> None, nrows |-> 0]
        ELSE IF badkey # None
        THEN [status |-> "InvalidArgument", detail |-> badkey,
              stmt |-> None, nrows |-> 0]
        ELSE IF badord # None
        THEN [status |-> "InvalidArgument", detail |-> badord,
              stmt |-> None, nrows |-> 0]
        ELSE [status |-> run.status, detail |-> None,
              stmt |-> Some([sql    |-> sql_text(dbname, r.table, cols, w,
                                                 obs, r.limit),
                             params |-> WhereValues(w)]),
              nrows |-> run.nrows]

(***************************************************************************)
(* Tool calls                                                              *)
(***************************************************************************)
NoReq  == [op |-> "none"]
NoResp == [status |-> "none"]

ListDatabasesReq == [op |-> "list_databases"]
InferReq(root, ev) ==
    [op |-> "infer_database", project_root |-> root, include_evidence |-> ev]
ListTablesReq(db) == [op |-> "list_tables", db |-> db]
SchemaReq(table, db) == [op |-> "get_table_schema", table |-> table, db |-> db]
SelectReq(table, db, columns, w, obs, limit) ==
    [op |-> "select_rows", table |-> table, db |-> db, columns |-> columns,
     where |-> w, order_by |-> obs, limit |-> limit]

\* The tool-calling transport hands a call to its handler.
Call(r) ==
    /\ req = NoReq
    /\ resp = NoResp
    /\ req' = r
    /\ UNCHANGED <<inferred_db, schema_cache, schemata, tables, files, resp>>

\* The transport returns the handler's result (or failure) to the caller.
Return ==
    /\ resp # NoResp
    /\ req' = NoReq
    /\ resp' = NoResp
    /\ UNCHANGED <<inferred_db, schema_cache, schemata, tables, files>>

\* The tool list_databases.
list_databases ==
    /\ req.op = "list_databases"
    /\ resp = NoResp
    /\ resp' = [status |-> "ok", value |-> non_system_databases(schemata)]
    /\ UNCHANGED <<inferred_db, schema_cache, schemata, tables, files, req>>

\* Lines 417-423: the evidence infer_database gives out.
EvidenceSummary(ev) ==
    [candidates_count |-> Len(ev.candidates),
     hint_count       |-> IF ev.hints = None THEN 0 ELSE Len(ev.hints[1]),
     selected         |-> ev.selected # None,
     method           |-> IF Truthy(ev.selected) THEN Some(TRUE) ELSE None]

\* The tool infer_database.
infer_database ==
    /\ req.op = "infer_database"
    /\ resp = NoResp
    /\ LET r == infer_database_internal(req.project_root,
                                        non_system_databases(schemata), files)
       IN  /\ inferred_db' = IF Truthy(r.db) THEN r.db ELSE inferred_db
           /\ resp' = [status   |-> "ok",
                       db       |-> r.db,
                       evidence |-> IF req.include_evidence
                                    THEN Some(EvidenceSummary(r)) ELSE None]
    /\ UNCHANGED <<schema_cache, schemata, tables, files, req>>

\* What SCHEMATA may hold when the resolver reads it a second time (line
\* 62): other clients of the server may have created or dropped a schema
\* since the inference pass read it.  With an explicit or a cached database
\* the resolver reads nothing, and SCHEMATA is as it was.
SecondReads(db) ==
    IF Truthy(db) \/ Truthy(inferred_db) THEN {schemata} ELSE SchemaLists

\* The tool list_tables.
list_tables ==
    /\ req.op = "list_tables"
    /\ resp = NoResp
    /\ \E c2 \in SecondReads(req.db) :
         LET rd == resolve_database(req.db, inferred_db,
                                    non_system_databases(schemata), c2, files)
         IN  /\ inferred_db' = rd.inferred
             /\ schemata' = IF rd.reads = 2 THEN c2 ELSE schemata
             /\ resp' = IF rd.ok
                        THEN [status |-> "ok", resolved |-> Some(rd.db),
                              schemata_reads |-> rd.reads,
                              value |-> TablesIn(tables, rd.db)]
                        ELSE [status |-> "AmbiguousDatabase",
                              resolved |-> None, schemata_reads |-> rd.reads]
    /\ UNCHANGED <<schema_cache, tables, files, req>>

\* The tool get_table_schema.
get_table_schema ==
    /\ req.op = "get_table_schema"
    /\ resp = NoResp
    /\ \E c2 \in SecondReads(req.db) :
         LET rd  == resolve_database(req.db, inferred_db,
                                     non_system_databases(schemata), c2, files)
             def == TableAt(tables, rd.db, req.table)
         IN  /\ inferred_db' = rd.inferred
             /\ schemata' = IF rd.reads = 2 THEN c2 ELSE schemata
             /\ resp' = IF ~rd.ok
                        THEN [status |-> "AmbiguousDatabase",
                              resolved |-> None, schemata_reads |-> rd.reads]
                        ELSE IF def.cols = <<>>
                        THEN [status |-> "NotFound", resolved |-> Some(rd.db),
                              schemata_reads |-> rd.reads]
                        ELSE [status |-> "ok", resolved |-> Some(rd.db),
                              schemata_reads |-> rd.reads,
                              value |-> Descriptor(rd.db, req.table, def)]
    /\ UNCHANGED <<schema_cache, tables, files, req>>

\* The tool select_rows.
select_rows ==
    /\ req.op = "select_rows"
    /\ resp = NoResp
    /\ \E c2 \in SecondReads(req.db) :
         LET rd == resolve_database(req.db, inferred_db,
                                    non_system_databases(schemata), c2, files)
             ec == ensure_table_cached(schema_cache, tables, rd.db, req.table)
         IN  IF ~limit_ok(req.limit)
             THEN /\ resp' = [status |-> "InvalidArgument", detail |-> None,
                              resolved |-> None, schemata_reads |-> 0,
                              column_reads |-> 0, allowed |-> None,
                              stmt |-> None, nrows |-> 0]
                  /\ UNCHANGED <<inferred_db, schemata, schema_cache>>
             ELSE IF ~rd.ok
             THEN /\ resp' = [status |-> "AmbiguousDatabase", detail |-> None,
                              resolved |-> None, schemata_reads |-> rd.reads,
                              column_reads |-> 0, allowed |-> None,
                              stmt |-> None, nrows |-> 0]
                  /\ inferred_db' = rd.inferred
                  /\ schemata' = c2
                  /\ UNCHANGED schema_cache
             ELSE IF ~ec.ok
             THEN /\ resp' = [status |-> "NotFound", detail |-> Some(req.table),
                              resolved |-> Some(rd.db),
                              schemata_reads |-> rd.reads,
                              column_reads |-> ec.reads, allowed |-> None,
                              stmt |-> None, nrows |-> 0]
                  /\ inferred_db' = rd.inferred
                  /\ schemata' = IF rd.reads = 2 THEN c2 ELSE schemata
                  /\ schema_cache' = ec.cache
             ELSE LET allowed == ec.cache[Key(rd.db, req.table)]
                      out == build_and_run(req, rd.db, allowed,
                                           TableAt(tables, rd.db, req.table))
                  IN  /\ resp' = [status |-> out.status, detail |-> out.detail,
                                  resolved |-> Some(rd.db),
                                  schemata_reads |-> rd.reads,
                                  column_reads |-> ec.reads,
                                  allowed |-> Some(allowed),
                                  stmt |-> out.stmt, nrows |-> out.nrows]
                      /\ inferred_db' = rd.inferred
                      /\ schemata' = IF rd.reads = 2 THEN c2 ELSE schemata
                      /\ schema_cache' = ec.cache
    /\ UNCHANGED <<tables, files, req>>

(***************************************************************************)
(* The world around the process                                            *)
(***************************************************************************)
\* Another client of the server creates or drops a schema.
SetSchemata ==
    /\ req = NoReq
    /\ \E s \in SchemaLists \ {schemata} : schemata' = s
    /\ UNCHANGED <<inferred_db, schema_cache, tables, files, req, resp>>

\* The definitions a table of the catalog moves between.
TableDefsOf(pair) ==
    IF pair = <<shop, users>> THEN TableDefs ELSE {NoTable, UsersA}

\* Another client creates, alters or drops a table.
AlterTable ==
    /\ req = NoReq
    /\ \E pair \in CatalogPairs :
         \E def \in TableDefsOf(pair) \ {tables[pair]} :
            tables' = [tables EXCEPT ![pair] = def]
    /\ UNCHANGED <<inferred_db, schema_cache, schemata, files, req, resp>>

\* Files named by prefer_names and by the text-like suffixes (.env is both).
EnvFile(m)  == File(TRUE, TRUE, 0, TRUE, m)
DeepFile(m) == File(FALSE, TRUE, 3, TRUE, m)

\* What the working directory holds: nothing; a .env naming shop and, too
\* deep to be scanned, a file naming billing; a .env naming shop and billing.
CwdSnapshots ==
    {<<>>,
     <<EnvFile(<<shop>>), DeepFile(<<billing>>)>>,
     <<EnvFile(<<shop, billing>>)>>}

\* The project is edited.
EditProject ==
    /\ req = NoReq
    /\ \E s \in CwdSnapshots \ {files[CwdPath]} :
         files' = [files EXCEPT ![CwdPath] = s]
    /\ UNCHANGED <<inferred_db, schema_cache, schemata, tables, req, resp>>

(***************************************************************************)
(* The server and its callers                                              *)
(***************************************************************************)
\* No db, an empty one, a schema of the server, a name that is none.
DbArgs    == {None, Some(<<>>), Some(shop), Some(legacy)}
TableArgs == {users, orders}

Requests ==
    {ListDatabasesReq}
    \cup {InferReq(root, ev) : root \in {None, Some(OtherPath)},
                               ev \in BOOLEAN}
    \cup {ListTablesReq(db) : db \in DbArgs}
    \cup {SchemaReq(t, db) : t \in TableArgs, db \in DbArgs \ {Some(<<>>)}}
    \cup {SelectReq(t, db, cw[1], cw[2], None, 100) :
            t \in TableArgs, db \in DbArgs \ {Some(<<>>)},
            cw \in {<<None, None>>, <<Some(<<email>>), None>>,
                    <<None, Some(<< <<name, "7">> >>)>>}}

\* guard = MySQLGuard(), against a server and a project in any state.
Init ==
    /\ inferred_db = None
    /\ schema_cache = <<>>
    /\ schemata \in SchemaLists
    /\ tables \in {t \in [CatalogPairs -> TableDefs] :
                     \A pair \in CatalogPairs : t[pair] \in TableDefsOf(pair)}
    /\ files \in {[r \in {CwdPath, OtherPath} |->
                     IF r = CwdPath THEN s ELSE <<EnvFile(<<billing>>)>>] :
                  s \in CwdSnapshots}
    /\ req = NoReq
    /\ resp = NoResp

Next ==
    \/ \E r \in Requests : Call(r)
    \/ list_databases
    \/ infer_database
    \/ list_tables
    \/ get_table_schema
    \/ select_rows
    \/ Return
    \/ SetSchemata
    \/ AlterTable
    \/ EditProject

Spec == Init /\ [][Next]_vars

(***************************************************************************)
(* The inference engine on its own: one infer_database call against every  *)
(* bounded project and catalog.                                            *)
(***************************************************************************)
MaxMatches == 2

SeqsUpTo(S, n) == UNION {[1..k -> S] : k \in 0..n}

\* The names a project file may mention; legacy is no schema of the server.
HintNames == {shop, billing, legacy}

\* Two files: one in the root, named by prefer_names or not, with a
\* text-like suffix (so scanned by the walk too); one below it, text-like or
\* not, within the walk's depth or beyond it.
InferSnapshots ==
    {<<File(p, TRUE, 0, TRUE, m1), File(FALSE, t, d, TRUE, m2)>> :
        p \in BOOLEAN, t \in BOOLEAN, d \in {1, 3},
        m1 \in SeqsUpTo(HintNames, MaxMatches),
        m2 \in SeqsUpTo(HintNames, MaxMatches)}

InitInfer ==
    /\ inferred_db = None
    /\ schema_cache = <<>>
    /\ schemata \in SchemaLists
    /\ tables = [pair \in CatalogPairs |-> NoTable]
    /\ files \in {[r \in {CwdPath, OtherPath} |->
                     IF r = CwdPath THEN s ELSE <<>>] : s \in InferSnapshots}
    /\ req \in {InferReq(None, FALSE), InferReq(Some(<<>>), TRUE),
                InferReq(Some(OtherPath), TRUE)}
    /\ resp = NoResp

NextInfer == infer_database

SpecInfer == InitInfer /\ [][NextInfer]_vars

(***************************************************************************)
(* The query builder on its own: one select_rows call, with every bounded  *)
(* argument list, against a table the schema cache does not hold yet.      *)
(***************************************************************************)
MaxColumns == 1
MaxWhere   == 2
MaxOrder   == 1

\* id in another case and with a leading blank.
ID_upper == <<"I", "D">>
id_blank == <<" ", "i", "d">>

ColumnArgs == {id, email, ID_upper, id_blank}

\* Values a caller may bind, one of them shaped like SQL.
Values == {"7", "x' OR '1'='1"}
WhereItems == {<<id, "7">>, <<id, "x' OR '1'='1">>, <<email, "7">>, <<nope, "7">>}

\* The item sequences that are dicts: no key twice.
WhereArgs ==
    {w \in SeqsUpTo(WhereItems, MaxWhere) :
        \A i, j \in DOMAIN w : i # j => w[i][1] # w[j][1]}

OrderArgs ==
    {id, <<"-">> \o id, <<"+">> \o email, <<"-", "-">> \o id,
     <<"-">> \o ID_upper}

LimitArgs == {0, 1, 100, 1000, 1001}

QueryRequests ==
    {SelectReq(users, Some(shop), c, w, o, l) :
        c \in {None} \cup {Some(x) : x \in SeqsUpTo(ColumnArgs, MaxColumns)},
        w \in {None} \cup {Some(x) : x \in WhereArgs},
        o \in {None} \cup {Some(x) : x \in SeqsUpTo(OrderArgs, MaxOrder)},
        l \in LimitArgs}

InitQuery ==
    /\ inferred_db = None
    /\ schema_cache = <<>>
    /\ schemata = <<billing, shop>>
    /\ tables \in {[pair \in CatalogPairs |->
                      IF pair = <<shop, users>> THEN d ELSE NoTable] :
                   d \in {UsersA, UsersB}}
    /\ files = [r \in {CwdPath, OtherPath} |-> <<>>]
    /\ req \in QueryRequests
    /\ resp = NoResp

NextQuery == select_rows

SpecQuery == InitQuery /\ [][NextQuery]_vars

(***************************************************************************)
(* Properties                                                              *)
(***************************************************************************)
Range(s) == {s[i] : i \in DOMAIN s}

\* The list an optional argument holds, empty when it is omitted.
ArgList(o) == IF o = None THEN <<>> ELSE o[1]

\* The tools that need a schema.
ResolverOps == {"list_tables", "get_table_schema", "select_rows"}

\* This step is the handler of a call that reaches the resolver (select_rows
\* checks its limit first).
Resolves ==
    /\ req.op \in ResolverOps
    /\ resp = NoResp
    /\ resp' # NoResp
    /\ req.op = "select_rows" => req.limit \in 1..1000

\* C1: a call that needs a schema resolves it to the caller's db when one is
\* given (an empty string counts as none given), else to the cached inferred
\* database, neither reading SCHEMATA; else to what a fresh inference pass
\* over the working directory selects; else to the only schema SCHEMATA
\* holds; else, none or several schemas included, it fails with
\* AmbiguousDatabase.
C1_ResolverPriority ==
    [][Resolves =>
        LET fresh == infer_database_internal(Some(CwdPath), schemata, files).db
        IN  IF req.db # None /\ req.db[1] # <<>>
            THEN resp'.resolved = req.db /\ resp'.schemata_reads = 0
            ELSE IF inferred_db # None
            THEN resp'.resolved = inferred_db /\ resp'.schemata_reads = 0
            ELSE IF fresh # None
            THEN resp'.resolved = fresh /\ resp'.schemata_reads = 1
            ELSE IF Len(schemata') = 1
            THEN resp'.resolved = Some(schemata'[1])
            ELSE resp'.resolved = None /\ resp'.status = "AmbiguousDatabase"
    ]_vars

\* An explicit db was resolved while another database was cached.
C1_Witness ==
    /\ req.op \in ResolverOps
    /\ resp # NoResp
    /\ req.db \in {Some(shop), Some(legacy)}
    /\ inferred_db = Some(billing)
    /\ resp.resolved = req.db

\* C2: a database name infer_database returns, and caches, is one of the
\* schemas SCHEMATA held when the pass read it.
C2_InferredIsAccessible ==
    (req.op = "infer_database" /\ resp # NoResp /\ resp.db # None)
        => /\ resp.db[1] \in Range(schemata)
           /\ inferred_db = resp.db

\* The project names a schema the server does not have and one it has, and
\* the one it has was inferred.
C2_Witness ==
    /\ req.op = "infer_database"
    /\ resp # NoResp
    /\ resp.db # None
    /\ legacy \in Range(ScanHints(files, CwdPath))
    /\ req.project_root # Some(OtherPath)

\* The decision rule, on the hints found H and the accessible schemas S.
InferenceRule(H, S) ==
    LET hits == H \cap Range(S) IN
    IF Cardinality(hits) = 1 THEN Some(CHOOSE h \in hits : TRUE)
    ELSE IF hits = {} /\ Len(S) = 1 THEN Some(S[1])
    ELSE None

\* C3: inference selects the one hint that is an accessible schema when
\* there is exactly one; the only accessible schema when no hint is one; and
\* nothing otherwise.
C3_DecisionRule ==
    (req.op = "infer_database" /\ resp # NoResp)
        => resp.db = InferenceRule(
                Range(ScanHints(files, IF req.project_root \in {None, Some(<<>>)}
                                       THEN CwdPath ELSE req.project_root[1])),
                schemata)

\* Several hints, several schemas, one hint among the schemas: it is chosen.
C3_Witness ==
    /\ req.op = "infer_database"
    /\ resp # NoResp
    /\ Len(schemata) = 2
    /\ Cardinality(Range(ScanHints(files, CwdPath))) = 2
    /\ Len(ScanHints(files, CwdPath)) > 2
    /\ resp.db = Some(billing)

\* An order_by entry with one leading sign, if it has one, removed.
StripOneSign(ob) ==
    IF ob # <<>> /\ Head(ob) \in {"-", "+"} THEN Tail(ob) ELSE ob

\* The identifiers a call names: columns, where keys, order_by columns.
NamedBy(r) ==
    ArgList(r.columns) \o WhereKeys(ArgList(r.where))
    \o Map(ArgList(r.order_by), StripOneSign)

\* C4: select_rows fails with InvalidArgument, and executes nothing, when a
\* column, a where key or an order_by entry less its one optional sign is
\* not exactly one of the table's columns.
C4_RejectsUnknownIdentifiers ==
    (req.op = "select_rows" /\ resp # NoResp /\ resp.allowed # None)
        => ((\E i \in DOMAIN NamedBy(req) :
                ~Member(NamedBy(req)[i], resp.allowed[1]))
            => resp.status = "InvalidArgument" /\ resp.stmt = None)

\* C5: a limit outside 1..1000 fails with InvalidArgument; one inside it,
\* with a table that exists and identifiers that are its columns, succeeds;
\* the statement ends in LIMIT <limit>, and no more rows than the limit, nor
\* than 1000, come back.
C5_LimitBounds ==
    (req.op = "select_rows" /\ resp # NoResp)
        => /\ req.limit \notin 1..1000
                => resp.status = "InvalidArgument" /\ resp.stmt = None
           /\ req.limit \in 1..1000
                => /\ (/\ resp.resolved # None
                       /\ \A i \in DOMAIN NamedBy(req) :
                            Member(NamedBy(req)[i],
                                   ColumnNames(TableAt(tables, resp.resolved[1],
                                                       req.table))))
                        => resp.status = "ok"
                   /\ resp.stmt # None
                        => LET sql == resp.stmt[1].sql IN
                           /\ SubSeq(sql, Len(sql) - 1, Len(sql))
                                = <<" LIMIT ", ToString(req.limit)>>
                           /\ resp.nrows <= req.limit
                           /\ resp.nrows <= 1000

\* limit=1000 on a table of more rows: 1000 rows come back.
C5_Witness ==
    /\ req.op = "select_rows"
    /\ resp # NoResp
    /\ req.limit = 1000
    /\ resp.status = "ok"
    /\ resp.nrows = 1000

\* C6: the statement text is the same whatever the where values are; the
\* values are the bound parameters, one per key in key order, and no piece
\* of the text is one of them.
C6_ValuesOnlyBound ==
    (req.op = "select_rows" /\ resp # NoResp /\ resp.stmt # None)
        => LET w    == ArgList(req.where)
               stmt == resp.stmt[1]
           IN  /\ stmt.params = WhereValues(w)
               /\ \A i \in DOMAIN stmt.sql : stmt.sql[i] \notin Values
               /\ \A vs \in [DOMAIN w -> Values] :
                    LET other == [req EXCEPT !.where =
                                    Some([i \in DOMAIN w |-> <<w[i][1], vs[i]>>])]
                    IN  build_and_run(other, resp.resolved[1], resp.allowed[1],
                                      TableAt(tables, resp.resolved[1],
                                              req.table)).stmt[1].sql
                        = stmt.sql

\* A statement with two conditions, the first on a value shaped like SQL.
C6_Witness ==
    /\ req.op = "select_rows"
    /\ resp # NoResp
    /\ resp.stmt # None
    /\ Len(resp.stmt[1].params) = 2
    /\ resp.stmt[1].params[1] = "x' OR '1'='1"

\* C7: an entry of the schema cache is never removed or replaced, and a
\* select_rows on a cached key reads no COLUMNS row and validates against the
\* stored list, whatever the catalog holds by then.
C7_CacheEntriesStick ==
    [][/\ \A k \in DOMAIN schema_cache :
            k \in DOMAIN schema_cache' /\ schema_cache'[k] = schema_cache[k]
       /\ (/\ req.op = "select_rows"
           /\ resp = NoResp
           /\ resp' # NoResp
           /\ resp'.resolved # None
           /\ Key(resp'.resolved[1], req.table) \in DOMAIN schema_cache)
            => LET stored == schema_cache[Key(resp'.resolved[1], req.table)]
               IN  /\ resp'.column_reads = 0
                   /\ resp'.allowed = Some(stored)
                   /\ resp'.status = "InvalidArgument"
                        <=> \E i \in DOMAIN NamedBy(req) :
                               ~Member(NamedBy(req)[i], stored)
    ]_vars

\* A select_rows of email passed validation against a stored list that the
\* table, altered since, no longer has.
C7_Witness ==
    /\ req.op = "select_rows"
    /\ resp # NoResp
    /\ resp.column_reads = 0
    /\ req.columns = Some(<<email>>)
    /\ resp.stmt # None
    /\ ColumnNames(TableAt(tables, resp.resolved[1], req.table)) = <<id, name>>

\* C8, as claimed: once set, the cached inferred database never changes.
C8_NeverChanges ==
    [][inferred_db # None => inferred_db' = inferred_db]_vars

\* C8, amended: once set, the cached inferred database is never cleared, the
\* resolver never changes it, and only an infer_database call that selects a
\* database replaces it, with the database it selected.
C8_NeverClearedReplacedByInfer ==
    [][inferred_db # None
        => /\ inferred_db' # None
           /\ inferred_db' # inferred_db
                => /\ req.op = "infer_database"
                   /\ resp = NoResp
                   /\ resp'.db = inferred_db'
    ]_vars

\* An infer_database call reached no decision and the cached value stayed.
C8_Witness ==
    /\ req.op = "infer_database"
    /\ resp # NoResp
    /\ resp.db = None
    /\ inferred_db # None

\* This step is the handler of a get_table_schema or select_rows call that
\* resolved a schema in which the catalog has no column for the table.
LooksUpMissing(op) ==
    /\ req.op = op
    /\ resp = NoResp
    /\ resp' # NoResp
    /\ resp'.resolved # None
    /\ TableAt(tables, resp'.resolved[1], req.table).cols = <<>>

\* C9, as claimed: for a table with no columns in the catalog,
\* get_table_schema fails with NotFound, and so does the lookup of
\* select_rows, leaving no cache entry for the key.
C9_ZeroColumnsNotFound ==
    [][/\ LooksUpMissing("get_table_schema") => resp'.status = "NotFound"
       /\ LooksUpMissing("select_rows")
            => /\ resp'.status = "NotFound"
               /\ Key(resp'.resolved[1], req.table) \notin DOMAIN schema_cache'
    ]_vars

\* C9, amended: the lookup of select_rows fails so when the schema cache
\* holds no entry under the key schema.table.
C9_ZeroColumnsNotFoundUnlessCached ==
    [][/\ LooksUpMissing("get_table_schema") => resp'.status = "NotFound"
       /\ (/\ LooksUpMissing("select_rows")
           /\ Key(resp'.resolved[1], req.table) \notin DOMAIN schema_cache)
            => /\ resp'.status = "NotFound"
               /\ resp'.column_reads = 1
               /\ Key(resp'.resolved[1], req.table) \notin DOMAIN schema_cache'
    ]_vars

\* A select_rows on a table without columns failed with NotFound while the
\* cache held another table.
C9_Witness ==
    /\ req.op = "select_rows"
    /\ resp # NoResp
    /\ resp.status = "NotFound"
    /\ schema_cache # <<>>
    /\ Key(resp.resolved[1], req.table) \notin DOMAIN schema_cache

\* The columns of the PRIMARY index, in SEQ_IN_INDEX order.
PrimaryIndexColumns(def) ==
    Map(SelectSeq(def.stats, LAMBDA r : r.index_name = "PRIMARY"),
        LAMBDA r : r.column_name)

\* C10: the primary_key get_table_schema returns holds the columns of the
\* PRIMARY index in the index's order.
C10_PrimaryKeyFollowsIndex ==
    (req.op = "get_table_schema" /\ resp # NoResp /\ resp.status = "ok")
        => LET idx == PrimaryIndexColumns(
                          TableAt(tables, resp.resolved[1], req.table))
           IN  SelectSeq(resp.value.primary_key, LAMBDA c : Member(c, idx))
               = idx

====
